---- MODULE Spec2Model ----
(***************************************************************************)
(* Model of reconcile/gitlab_owners.py: the ownership index                *)
(* (ProjectOwners), the approval computation (MRApproval) and the body of  *)
(* the loop of run() over one merge request, together with the            *)
(* environment that the integration observes through the GitLab API:       *)
(* users commenting, commits being pushed, labels being toggled by hand    *)
(* and time passing.                                                       *)
(*                                                                         *)
(* Strings that the code inspects character by character (paths, owned     *)
(* paths, comment bodies) are sequences; timestamps are naturals.          *)
(***************************************************************************)
EXTENDS Integers, Sequences, FiniteSets, TLC

\* ------------------------------------------------------------------ bounds
MaxComments == 2
MaxTime == 1
MaxVersion == 2

\* --------------------------------------------------------------- constants
APPROVAL_LABEL == "approved"

\* gitlab.user.username, the identity the integration posts with
BotUser == "bot"

Approvers == {"alice", "bob"}
Usernames == Approvers \cup {BotUser}

\* directories that may hold an OWNERS file: "a" and "a/b"
OwnedPaths == { <<"a">>, <<"a", "/", "b">> }

\* files a merge request may touch: "a/f", "a/bc" and "c/k"
ChangedPaths == { <<"a", "/", "f">>, <<"a", "/", "b", "c">>, <<"c", "/", "k">> }

\* contents of ProjectOwners._owners_map: one OWNERS file with one approver
\* or with two, two nested files with different approvers, and a file that
\* lists no approver above one that does
OwnersMaps ==
    { [p \in { <<"a">> } |-> {"alice"}],
      [p \in { <<"a">> } |-> {"alice", "bob"}],
      [p \in OwnedPaths |-> IF p = <<"a">> THEN {"alice"} ELSE {"bob"}],
      [p \in OwnedPaths |-> IF p = <<"a">> THEN {} ELSE {"alice"}] }

VARIABLES
    owners_map,             \* ProjectOwners._owners_map
    paths,                  \* the changed paths of the merge request
    top_commit_created_at,  \* MRApproval.top_commit_created_at
    comments,               \* the notes of the merge request, oldest first
    labels,                 \* the labels of the merge request
    now,                    \* the time of the GitLab server
    pc,                     \* "ran" right after run() processed the MR
    dry_run,                \* the dry_run argument of that run
    approval_status,        \* what get_approval_status() returned to it
    report,                 \* the local report of get_approval_status()
    calls,                  \* the GitLab write calls it made, in order
    log,                    \* the _LOG.info lines it wrote, in order
    had_label,              \* the labels when it started
    had_comments,           \* the number of notes when it started
    was_settled,            \* settled, when it started
    settled,                \* a non-dry run completed and nothing changed since
    lookup                  \* the last query of the ownership index, if any

\* the merge request, one pass of run() over it, and its history
mr_vars == << paths, top_commit_created_at, comments, labels, now,
              pc, dry_run, approval_status, report, calls, log, had_label,
              had_comments, was_settled, settled >>

\* reconcile/ocm_clusters.py: the inputs of run() and what one run did
VARIABLES
    desired_state,          \* fetch_current_state(clusters), by cluster name
    current_state,          \* the clusters OCM reports as ready, by name
    pending_state,          \* the names of the clusters OCM has not ready yet
    ocm_pc,                 \* "ran" right after run() of ocm_clusters
    ocm_dry_run,            \* the dry_run argument of that run
    error,                  \* its local error
    clusters_updates,       \* its local clusters_updates
    create_calls,           \* the names it passed to ocm.create_cluster
    mr_submitted,           \* whether it submitted CreateClustersUpdates
    exit_status,            \* the exit status of the process
    was_pending             \* pending_state when it started

ocm_vars == << desired_state, current_state, pending_state, ocm_pc, ocm_dry_run,
               error, clusters_updates, create_calls, mr_submitted, exit_status,
               was_pending >>

vars == << owners_map, mr_vars, lookup, ocm_vars >>

\* ------------------------------------------------------------ text helpers
\* str.startswith
StartsWith(s, prefix) ==
    /\ Len(prefix) <= Len(s)
    /\ SubSeq(s, 1, Len(prefix)) = prefix

\* one piece of a comment body: a character, or one "key": "value" pair of a
\* JSON object
Tok(c) == [t |-> c, key |-> <<>>, value |-> {}]
Pair(k, v) == [t |-> "pair", key |-> k, value |-> v]

LgtmBody == << Tok("/lgtm") >>
\* the characters lstrip and rstrip remove around the JSON text
BackTick == Tok("BACKTICK")
NewLine == Tok("NEWLINE")

JunkBody == << BackTick, BackTick, BackTick, NewLine, Tok("junk") >>

\* the orders in which a set can be listed
Orderings(S) ==
    { s \in [1..Cardinality(S) -> S] : \A i, j \in 1..Cardinality(S) : s[i] = s[j] => i = j }

Range(s) == { s[i] : i \in 1..Len(s) }

\* Python's None, where a comment body or a report is expected
None == << Tok("None") >>

\* str.lstrip(chars) and str.rstrip(chars): drop the leading (trailing)
\* characters that belong to chars
RECURSIVE LStrip(_, _)
LStrip(s, chars) ==
    IF s # <<>> /\ Head(s) \in chars THEN LStrip(Tail(s), chars) ELSE s

RECURSIVE RStrip(_, _)
RStrip(s, chars) ==
    IF s # <<>> /\ s[Len(s)] \in chars
    THEN RStrip(SubSeq(s, 1, Len(s) - 1), chars)
    ELSE s

\* json.dumps(report, indent=4): the pairs in the dict's insertion order
\* between braces
json_dumps(d) == << Tok("{") >> \o d \o << Tok("}") >>

\* json.loads: a dict (a function from keys to values, a repeated key keeping
\* its last value) for an object, JSONDecodeError for any other text
json_loads(s) ==
    IF /\ Len(s) >= 2
       /\ s[1] = Tok("{")
       /\ s[Len(s)] = Tok("}")
       /\ \A i \in 2..(Len(s) - 1) : s[i].t = "pair"
    THEN [raised |-> FALSE,
          value  |-> [k \in { s[i].key : i \in 2..(Len(s) - 1) } |->
                        LET last == CHOOSE i \in 2..(Len(s) - 1) :
                                       /\ s[i].key = k
                                       /\ \A j \in 2..(Len(s) - 1) : s[j].key = k => j <= i
                        IN  s[last].value]]
    ELSE [raised |-> TRUE, value |-> << >>]

\* body == report, for a parsed dict and the report built in insertion order
DictEquals(body, d) ==
    /\ DOMAIN body = { d[i].key : i \in 1..Len(d) }
    /\ \A i \in 1..Len(d) : body[d[i].key] = d[i].value

\* -------------------------------------------------------- ProjectOwners
\* a slip: only the directory that is the path itself counts
get_all_owners_exact(path) ==
    LET path_owners ==
            UNION { owners_map[owned_path] :
                      owned_path \in { k \in DOMAIN owners_map : path = k } }
    IN  IF path_owners = {}
        THEN [raised |-> TRUE, error |-> "KeyError", value |-> {}]
        ELSE [raised |-> FALSE, error |-> "", value |-> path_owners]

\* a slip: an empty list is returned instead of raising
get_all_owners_quiet(path) ==
    [raised |-> FALSE, error |-> "",
     value  |-> UNION { owners_map[owned_path] :
                          owned_path \in { k \in DOMAIN owners_map : StartsWith(path, k) } }]

get_all_owners(path) ==
    LET path_owners ==
            UNION { owners_map[owned_path] :
                      owned_path \in { k \in DOMAIN owners_map : StartsWith(path, k) } }
    IN  IF path_owners = {}
        THEN [raised |-> TRUE, error |-> "KeyError", value |-> {}]
        ELSE [raised |-> FALSE, error |-> "", value |-> path_owners]

\* a slip: min instead of max
get_closest_owners_shortest(path) ==
    LET candidates == { k \in DOMAIN owners_map : StartsWith(path, k) }
    IN  IF candidates = {}
        THEN [raised |-> TRUE, error |-> "KeyError", value |-> {}]
        ELSE LET elected == CHOOSE c \in candidates :
                                \A d \in candidates : Len(c) <= Len(d)
             IN  [raised |-> FALSE, error |-> "", value |-> owners_map[elected]]

get_closest_owners(path) ==
    LET candidates == { k \in DOMAIN owners_map : StartsWith(path, k) }
    IN  IF candidates = {}
        THEN [raised |-> TRUE, error |-> "KeyError", value |-> {}]
        ELSE LET elected == CHOOSE c \in candidates :
                                \A d \in candidates : Len(d) <= Len(c)
             IN  [raised |-> FALSE, error |-> "", value |-> owners_map[elected]]

\* ----------------------------------------------------------- MRApproval
\* a slip: a path without owner is skipped instead of raising
get_change_owners_map_skip(changed) ==
    LET owned(path) == ~ (get_all_owners(path).raised \/ get_closest_owners(path).raised)
        kept == SelectSeq(changed, owned)
    IN  [raised |-> FALSE,
         value  |-> [i \in 1..Len(kept) |->
                       [path           |-> kept[i],
                        owners         |-> get_all_owners(kept[i]).value,
                        closest_owners |-> get_closest_owners(kept[i]).value]]]

\* the dict is kept as the sequence of its items, in insertion order;
\* OwnerNotFoundError is raised as soon as one path has no owner
get_change_owners_map(changed) ==
    IF \E i \in 1..Len(changed) :
          get_all_owners(changed[i]).raised \/ get_closest_owners(changed[i]).raised
    THEN [raised |-> TRUE, value |-> << >>]
    ELSE [raised |-> FALSE,
          value  |-> [i \in 1..Len(changed) |->
                        [path           |-> changed[i],
                         owners         |-> get_all_owners(changed[i]).value,
                         closest_owners |-> get_closest_owners(changed[i]).value]]]

\* a slip: the creation time of the comment is not looked at
IsLgtm_nocutoff(comment) == comment.body = LgtmBody

IsLgtm(comment) ==
    /\ comment.body = LgtmBody
    /\ ~ (comment.created_at < top_commit_created_at)

get_lgtms ==
    LET kept == SelectSeq(comments, IsLgtm)
    IN  [i \in 1..Len(kept) |-> kept[i].username]

\* the message names closest_owners, a sorted list without duplicates
Message(closest_owners) == closest_owners

\* a slip: every owner has to approve
IsApproved_all(change_owners, lgtms) ==
    \A owner \in change_owners.owners : owner \in Range(lgtms)

IsApproved(change_owners, lgtms) ==
    \E owner \in change_owners.owners : owner \in Range(lgtms)

\* a slip: the message names all the owners
build_report_all(change_owners_map, lgtms) ==
    LET unapproved(change_owners) == ~ IsApproved(change_owners, lgtms)
        kept == SelectSeq(change_owners_map, unapproved)
    IN  [i \in 1..Len(kept) |-> Pair(kept[i].path, Message(kept[i].owners))]

\* lines 159-172: one entry per change that no owner approved
build_report(change_owners_map, lgtms) ==
    LET unapproved(change_owners) == ~ IsApproved(change_owners, lgtms)
        kept == SelectSeq(change_owners_map, unapproved)
    IN  [i \in 1..Len(kept) |-> Pair(kept[i].path, Message(kept[i].closest_owners))]

\* a slip: the author of the comment is not looked at
IsOwnRecent_anyone(comment) ==
    ~ (comment.created_at < top_commit_created_at)

\* a slip: a comment created at the time of the top commit is left out
IsOwnRecent_strict(comment) ==
    /\ ~ (comment.username # BotUser)
    /\ ~ (comment.created_at <= top_commit_created_at)

\* lines 183-191: our own comments created after the top commit
IsOwnRecent(comment) ==
    /\ ~ (comment.username # BotUser)
    /\ ~ (comment.created_at < top_commit_created_at)

\* a slip: the pre-formatted markdown is not removed before parsing
SameReport_unstripped(comment, d) ==
    LET parsed == json_loads(comment.body)
    IN  ~ parsed.raised /\ DictEquals(parsed.value, d)

\* lines 193-203: the comment decodes to the report
SameReport(comment, d) ==
    LET json_body == RStrip(LStrip(comment.body, {BackTick, NewLine}),
                            {NewLine, BackTick})
        parsed == json_loads(json_body)
    IN  ~ parsed.raised /\ DictEquals(parsed.value, d)

markdown_json_report(d) ==
    << BackTick, BackTick, BackTick, NewLine >> \o json_dumps(d)
        \o << NewLine, BackTick, BackTick, BackTick >>

\* a slip: break instead of continue, the scan ends at the first comment of
\* ours that does not parse
get_approval_status_break(changed) ==
    LET change_owners_map == get_change_owners_map(changed)
        d == build_report(change_owners_map.value, get_lgtms)
        unparsed(c) == json_loads(RStrip(LStrip(c.body, {BackTick, NewLine}),
                                         {NewLine, BackTick})).raised
    IN  IF change_owners_map.raised
        THEN [approved |-> FALSE, report |-> None, local |-> None]
        ELSE IF d = << >>
        THEN [approved |-> TRUE, report |-> None, local |-> d]
        ELSE IF \E i \in 1..Len(comments) :
                   /\ IsOwnRecent(comments[i]) /\ SameReport(comments[i], d)
                   /\ \A j \in 1..(i - 1) :
                         ~ (IsOwnRecent(comments[j]) /\ unparsed(comments[j]))
        THEN [approved |-> FALSE, report |-> None, local |-> d]
        ELSE [approved |-> FALSE, report |-> markdown_json_report(d), local |-> d]

\* a slip: a change without owner leaves the merge request approved
get_approval_status_open(changed) ==
    LET change_owners_map == get_change_owners_map(changed)
        d == build_report(change_owners_map.value, get_lgtms)
    IN  IF change_owners_map.raised
        THEN [approved |-> TRUE, report |-> None, local |-> None]
        ELSE IF d = << >>
        THEN [approved |-> TRUE, report |-> None, local |-> d]
        ELSE IF \E i \in 1..Len(comments) :
                   IsOwnRecent(comments[i]) /\ SameReport(comments[i], d)
        THEN [approved |-> FALSE, report |-> None, local |-> d]
        ELSE [approved |-> FALSE, report |-> markdown_json_report(d), local |-> d]

\* the returned dict, with the local report next to it
get_approval_status(changed) ==
    LET change_owners_map == get_change_owners_map(changed)
        d == build_report(change_owners_map.value, get_lgtms)
    IN  IF change_owners_map.raised
        THEN [approved |-> FALSE, report |-> None, local |-> None]
        ELSE IF d = << >>
        THEN [approved |-> TRUE, report |-> None, local |-> d]
        ELSE IF \E i \in 1..Len(comments) :
                   IsOwnRecent(comments[i]) /\ SameReport(comments[i], d)
        THEN [approved |-> FALSE, report |-> None, local |-> d]
        ELSE [approved |-> FALSE, report |-> markdown_json_report(d), local |-> d]

has_approval_label(mr_labels) == APPROVAL_LABEL \in mr_labels

\* ------------------------------------------------------------------ run
Call(op, body) == [op |-> op, body |-> body]
AddLabel == Call("add_label_to_merge_request", << >>)
RemoveLabel == Call("remove_label_from_merge_request", << >>)
CreateNote(body) == Call("notes.create", body)

\* a slip: the label is added without looking at the labels
run_calls_relabel(dr, status, mr_labels) ==
    IF status.approved
    THEN IF ~ dr THEN << AddLabel >> ELSE << >>
    ELSE (IF ~ dr /\ has_approval_label(mr_labels) THEN << RemoveLabel >> ELSE << >>)
         \o (IF status.report # None /\ ~ dr
             THEN << RemoveLabel, CreateNote(status.report) >>
             ELSE << >>)

\* a slip: the label is removed only where a report is published
run_calls_keep(dr, status, mr_labels) ==
    IF status.approved
    THEN IF has_approval_label(mr_labels)
         THEN << >>
         ELSE IF ~ dr THEN << AddLabel >> ELSE << >>
    ELSE IF status.report # None /\ ~ dr
         THEN << RemoveLabel, CreateNote(status.report) >>
         ELSE << >>

\* lines 236-270: the GitLab write calls of one pass of the loop, in order
run_calls(dr, status, mr_labels) ==
    IF status.approved
    THEN IF has_approval_label(mr_labels)
         THEN << >>
         ELSE IF ~ dr THEN << AddLabel >> ELSE << >>
    ELSE (IF ~ dr /\ has_approval_label(mr_labels) THEN << RemoveLabel >> ELSE << >>)
         \o (IF status.report # None /\ ~ dr
             THEN << RemoveLabel, CreateNote(status.report) >>
             ELSE << >>)

\* lines 236-270: the _LOG.info lines of one pass of the loop, in order
run_log(dr, status, mr_labels) ==
    IF status.approved
    THEN IF has_approval_label(mr_labels)
         THEN << "already approved" >>
         ELSE << "approving now" >>
    ELSE (IF ~ dr /\ has_approval_label(mr_labels)
          THEN << "removing approval" >> ELSE << >>)
         \o (IF status.report # None
             THEN << "publishing approval report" >>
             ELSE << "not fully approved" >>)

\* what the GitLab server does with the calls
RECURSIVE labels_after(_, _)
labels_after(mr_labels, cs) ==
    IF cs = << >> THEN mr_labels
    ELSE labels_after(
            CASE Head(cs).op = "add_label_to_merge_request" ->
                    mr_labels \cup {APPROVAL_LABEL}
              [] Head(cs).op = "remove_label_from_merge_request" ->
                    mr_labels \ {APPROVAL_LABEL}
              [] OTHER -> mr_labels,
            Tail(cs))

IsCreateNote(c) == c.op = "notes.create"

notes_after(mr_comments, cs) ==
    LET created == SelectSeq(cs, IsCreateNote)
    IN  mr_comments \o [i \in 1..Len(created) |->
                          [username   |-> BotUser,
                           body       |-> created[i].body,
                           created_at |-> now]]

NoStatus == [approved |-> FALSE, report |-> None, local |-> None]

\* ocm_clusters is not running
OcmIdle ==
    /\ desired_state = << >>
    /\ current_state = << >>
    /\ pending_state = {}
    /\ ocm_pc = "idle"
    /\ ocm_dry_run = FALSE
    /\ error = FALSE
    /\ clusters_updates = << >>
    /\ create_calls = << >>
    /\ mr_submitted = FALSE
    /\ exit_status = 0
    /\ was_pending = {}

\* no query of the ownership index was recorded
NoLookup == [path |-> << >>, owners |-> [raised |-> FALSE, error |-> "", value |-> {}],
             closest_owners |-> [raised |-> FALSE, error |-> "", value |-> {}],
             asked |-> FALSE]

Init ==
    /\ owners_map \in OwnersMaps
    /\ paths \in SUBSET ChangedPaths
    /\ top_commit_created_at = 0
    /\ comments = << >>
    /\ labels \in SUBSET {APPROVAL_LABEL}
    /\ now = 0
    /\ pc = "idle"
    /\ dry_run = FALSE
    /\ approval_status = NoStatus
    /\ report = None
    /\ calls = << >>
    /\ log = << >>
    /\ had_label = FALSE
    /\ had_comments = 0
    /\ was_settled = FALSE
    /\ settled = FALSE
    /\ lookup = NoLookup
    /\ OcmIdle

\* one pass of the loop of run() over the merge request (lines 230-270)
Run ==
    \E dr \in BOOLEAN, changed \in Orderings(paths) :
        LET status == get_approval_status(changed)
            cs == run_calls(dr, status, labels)
        IN  /\ Len(notes_after(comments, cs)) <= MaxComments
            /\ pc' = "ran"
            /\ dry_run' = dr
            /\ approval_status' = [approved |-> status.approved, report |-> status.report]
            /\ report' = status.local
            /\ calls' = cs
            /\ log' = run_log(dr, status, labels)
            /\ had_label' = has_approval_label(labels)
            /\ had_comments' = Len(comments)
            /\ was_settled' = settled
            /\ settled' = (settled \/ ~ dr)
            /\ labels' = labels_after(labels, cs)
            /\ comments' = notes_after(comments, cs)
            /\ UNCHANGED << owners_map, paths, top_commit_created_at, now, lookup, ocm_vars >>

\* the locals of run() are gone once the environment moves on
Forget ==
    /\ pc' = "idle"
    /\ dry_run' = FALSE
    /\ approval_status' = NoStatus
    /\ report' = None
    /\ calls' = << >>
    /\ log' = << >>
    /\ had_label' = FALSE
    /\ had_comments' = 0
    /\ was_settled' = FALSE

\* the texts the integration could post on the merge request as it stands
ReportBodies ==
    { get_approval_status(changed).report : changed \in Orderings(paths) } \ {None}

\* what the environment writes on the merge request: an approver approves,
\* another integration writes with the bot account, or a user pastes the
\* text of a report
Posts ==
    (Approvers \X {LgtmBody}) \cup ({BotUser} \X {JunkBody})
        \cup ({"alice"} \X ReportBodies)

PostComment ==
    \E post \in Posts :
      LET username == post[1]
          body == post[2]
      IN
        /\ Len(comments) < MaxComments
        /\ comments' = Append(comments, [username   |-> username,
                                          body       |-> body,
                                          created_at |-> now])
        /\ Forget
        /\ settled' = FALSE
        /\ UNCHANGED << owners_map, paths, top_commit_created_at, labels, now, lookup, ocm_vars >>

\* a commit is pushed to the source branch
PushCommit ==
    /\ top_commit_created_at' = now
    /\ Forget
    /\ settled' = FALSE
    /\ UNCHANGED << owners_map, paths, comments, labels, now, lookup, ocm_vars >>

\* somebody sets or removes the approval label by hand
ToggleLabel ==
    /\ labels' = IF APPROVAL_LABEL \in labels
                 THEN labels \ {APPROVAL_LABEL}
                 ELSE labels \cup {APPROVAL_LABEL}
    /\ Forget
    /\ settled' = FALSE
    /\ UNCHANGED << owners_map, paths, top_commit_created_at, comments, now, lookup, ocm_vars >>

\* time passes; only the order of the timestamps matters to the code, so
\* the clock moves on once something happened at the current time
Tick ==
    /\ now < MaxTime
    /\ \/ top_commit_created_at = now
       \/ \E i \in 1..Len(comments) : comments[i].created_at = now
    /\ now' = now + 1
    /\ Forget
    /\ UNCHANGED << owners_map, paths, top_commit_created_at, comments, labels,
                    settled, lookup, ocm_vars >>

Next == Run \/ PostComment \/ PushCommit \/ ToggleLabel \/ Tick

Spec == Init /\ [][Next]_vars

\* ------------------------------------------ the ownership index by itself
\* directories that may hold an OWNERS file: "a", "a/b" and "c"
IndexPaths == { <<"a">>, <<"a", "/", "b">>, <<"c">> }

\* every content of ProjectOwners._owners_map over these directories
IndexMaps == UNION { [D -> SUBSET Approvers] : D \in SUBSET IndexPaths }

\* the paths asked for: "a/f", "a/bc", "c/k", "a", "ab", "b/a" and ""
QueryPaths ==
    ChangedPaths \cup { <<"a">>, <<"a", "b">>, <<"b", "/", "a">>, << >> }

InitIndex ==
    /\ owners_map \in IndexMaps
    /\ paths = {}
    /\ top_commit_created_at = 0
    /\ comments = << >>
    /\ labels = {}
    /\ now = 0
    /\ pc = "idle"
    /\ dry_run = FALSE
    /\ approval_status = NoStatus
    /\ report = None
    /\ calls = << >>
    /\ log = << >>
    /\ had_label = FALSE
    /\ had_comments = 0
    /\ was_settled = FALSE
    /\ settled = FALSE
    /\ lookup = NoLookup
    /\ OcmIdle

\* lines 118-122: both queries for one path
Lookup ==
    \E path \in QueryPaths :
        /\ lookup' = [path           |-> path,
                      owners         |-> get_all_owners(path),
                      closest_owners |-> get_closest_owners(path),
                      asked          |-> TRUE]
        /\ UNCHANGED << owners_map, mr_vars, ocm_vars >>

NextIndex == Lookup

SpecIndex == InitIndex /\ [][NextIndex]_vars

\* --------------------------------------------------- reconcile/ocm_clusters
\* the clusters of app-interface that have an ocm section, in listing order
ClusterNames == << "c1", "c2" >>

\* versions are compared with semver.compare; a desired version may be empty
EmptyVersion == 0
Versions == 1..MaxVersion

IdOf(name) == << "id", name >>
ExternalIdOf(name) == << "external_id", name >>
ShardOf(name) == "shard"
NetworkOf(name) == "network"
Nodes == { 4, 5 }

\* what app-interface may hold for a cluster, 'upgrade' already removed
DesiredSpecs(name) ==
    { [spec    |-> [version            |-> v,
                    initial_version    |-> 1,
                    id                 |-> ids[1],
                    external_id        |-> ids[2],
                    provision_shard_id |-> shard,
                    nodes              |-> n],
       network |-> NetworkOf(name)] :
        v \in Versions \cup {EmptyVersion},
        ids \in { << << >>, << >> >>, << IdOf(name), ExternalIdOf(name) >> },
        shard \in { "", ShardOf(name) },
        n \in Nodes }

\* what OCM may report for a ready cluster
CurrentSpecs(name) ==
    { [spec    |-> [version            |-> v,
                    id                 |-> IdOf(name),
                    external_id        |-> ExternalIdOf(name),
                    provision_shard_id |-> ShardOf(name),
                    nodes              |-> n],
       network |-> NetworkOf(name)] :
        v \in Versions, n \in Nodes }

\* dict.pop for several keys
PopKeys(d, keys) == [k \in DOMAIN d \ keys |-> d[k]]

semver_compare(a, b) == IF a < b THEN -1 ELSE IF a > b THEN 1 ELSE 0

\* lines 48-54
compare_result(desired_spec, current_spec) ==
    IF desired_spec.spec.version # EmptyVersion
    THEN semver_compare(current_spec.spec.version, desired_spec.spec.version)
    ELSE 1

\* lines 42-88: clusters_updates[cluster_name]
cluster_updates(cluster_name, desired_spec, current_spec) ==
    LET keys == (IF compare_result(desired_spec, current_spec) > 0
                 THEN {"version"} ELSE {})
                \cup (IF desired_spec.spec.id = << >> THEN {"id"} ELSE {})
                \cup (IF desired_spec.spec.external_id = << >>
                      THEN {"external_id"} ELSE {})
                \cup (IF desired_spec.spec.provision_shard_id
                           # current_spec.spec.provision_shard_id
                      THEN {"provision_shard_id"} ELSE {})
    IN  [k \in keys \cup (IF keys # {} THEN {"path"} ELSE {}) |->
            IF k = "path" THEN << "data", cluster_name >> ELSE current_spec.spec[k]]

\* a slip: any difference of the versions is an error
cluster_error_strict(desired_spec, current_spec) ==
    \/ compare_result(desired_spec, current_spec) # 0
    \/ [current_spec EXCEPT
          !.spec = PopKeys(@, {"version", "id", "external_id", "provision_shard_id"})]
       # [desired_spec EXCEPT
            !.spec = PopKeys(@, {"initial_version", "version", "id", "external_id",
                                 "provision_shard_id"})]

\* lines 64-69 and 90-101: this cluster sets error
cluster_error(desired_spec, current_spec) ==
    \/ compare_result(desired_spec, current_spec) < 0
    \/ [current_spec EXCEPT
          !.spec = PopKeys(@, {"version", "id", "external_id", "provision_shard_id"})]
       # [desired_spec EXCEPT
            !.spec = PopKeys(@, {"initial_version", "version", "id", "external_id",
                                 "provision_shard_id"})]

\* a slip: the pending clusters are not looked at
to_create_again(cluster_name) ==
    cluster_name \notin DOMAIN current_state

\* lines 40-41 and 102-108: create_cluster is called for this cluster
to_create(cluster_name) ==
    /\ cluster_name \notin DOMAIN current_state
    /\ ~ (cluster_name \in pending_state)

OcmForget ==
    /\ ocm_pc' = "idle"
    /\ ocm_dry_run' = FALSE
    /\ error' = FALSE
    /\ clusters_updates' = << >>
    /\ create_calls' = << >>
    /\ mr_submitted' = FALSE
    /\ exit_status' = 0
    /\ was_pending' = {}

InitOcm ==
    /\ desired_state \in { d \in [Range(ClusterNames) -> UNION { DesiredSpecs(n) : n \in Range(ClusterNames) }] :
                             \A n \in Range(ClusterNames) : d[n] \in DesiredSpecs(n) }
    /\ \E ready \in SUBSET Range(ClusterNames) :
          /\ current_state \in { c \in [ready -> UNION { CurrentSpecs(n) : n \in ready }] :
                                   \A n \in ready : c[n] \in CurrentSpecs(n) }
          /\ pending_state \in SUBSET (Range(ClusterNames) \ ready)
    /\ ocm_pc = "idle"
    /\ ocm_dry_run = FALSE
    /\ error = FALSE
    /\ clusters_updates = << >>
    /\ create_calls = << >>
    /\ mr_submitted = FALSE
    /\ exit_status = 0
    /\ was_pending = {}
    /\ owners_map = << >>
    /\ paths = {}
    /\ top_commit_created_at = 0
    /\ comments = << >>
    /\ labels = {}
    /\ now = 0
    /\ pc = "idle"
    /\ dry_run = FALSE
    /\ approval_status = NoStatus
    /\ report = None
    /\ calls = << >>
    /\ log = << >>
    /\ had_label = FALSE
    /\ had_comments = 0
    /\ was_settled = FALSE
    /\ settled = FALSE
    /\ lookup = NoLookup

\* run() of ocm_clusters (lines 25-126); a cluster whose creation was
\* requested for real is reported as pending by OCM from then on
OcmRun ==
    \E dr \in BOOLEAN :
        LET present == { n \in DOMAIN desired_state : n \in DOMAIN current_state }
            updates == [n \in present |->
                          cluster_updates(n, desired_state[n], current_state[n])]
            failed == \E n \in present : cluster_error(desired_state[n], current_state[n])
            requested == SelectSeq(ClusterNames, to_create)
            create_update_mr ==
                \E n \in present : \E k \in DOMAIN updates[n] : k # "path"
        IN  /\ ocm_pc' = "ran"
            /\ ocm_dry_run' = dr
            /\ error' = failed
            /\ clusters_updates' = updates
            /\ create_calls' = requested
            /\ mr_submitted' = (create_update_mr /\ ~ dr)
            /\ exit_status' = IF failed THEN 1 ELSE 0
            /\ was_pending' = pending_state
            /\ pending_state' = IF dr THEN pending_state
                                ELSE pending_state \cup Range(requested)
            /\ UNCHANGED << desired_state, current_state, owners_map, mr_vars, lookup >>

\* OCM finishes the installation of a pending cluster
Provisioned ==
    \E name \in pending_state, v \in Versions :
        /\ desired_state[name].spec.version \in {EmptyVersion, v}
        /\ pending_state' = pending_state \ {name}
        /\ current_state' =
              [n \in DOMAIN current_state \cup {name} |->
                 IF n = name
                 THEN [spec    |-> [version            |-> v,
                                    id                 |-> IdOf(name),
                                    external_id        |-> ExternalIdOf(name),
                                    provision_shard_id |-> ShardOf(name),
                                    nodes              |-> desired_state[name].spec.nodes],
                       network |-> NetworkOf(name)]
                 ELSE current_state[n]]
        /\ OcmForget
        /\ UNCHANGED << desired_state, owners_map, mr_vars, lookup >>

\* OCM upgrades a ready cluster
Upgraded ==
    \E name \in DOMAIN current_state :
        /\ current_state[name].spec.version < MaxVersion
        /\ current_state' = [current_state EXCEPT ![name].spec.version = @ + 1]
        /\ OcmForget
        /\ UNCHANGED << desired_state, pending_state, owners_map, mr_vars, lookup >>

NextOcm == OcmRun \/ Provisioned \/ Upgraded

SpecOcm == InitOcm /\ [][NextOcm]_vars

\* ------------------------------------------------------------ properties
\* The properties look at the state right after one pass of the loop and
\* describe the inputs of that pass from the observed state, not from the
\* operators above.

Ran == pc = "ran"

\* no key of the index is a prefix of the path
NoMatch(path) == ~ \E k \in DOMAIN owners_map : StartsWith(path, k)

Unowned == \E path \in paths : NoMatch(path)

\* the owners declared in any key that is a prefix of the path
DeclaredOwners(path) ==
    UNION { owners_map[k] : k \in { k \in DOMAIN owners_map : StartsWith(path, k) } }

\* the notes that were on the merge request when the pass started
Prior == 1..had_comments

\* the users with an approval created at or after the top commit
CountedVoters ==
    { comments[i].username :
        i \in { j \in Prior : /\ comments[j].body = LgtmBody
                              /\ comments[j].created_at >= top_commit_created_at } }

Voted(path) == DeclaredOwners(path) \cap CountedVoters # {}

Ops == { calls[i].op : i \in 1..Len(calls) }
Times(op) == Cardinality({ i \in 1..Len(calls) : calls[i].op = op })
Logged(line) == \E i \in 1..Len(log) : log[i] = line

LabelNow == APPROVAL_LABEL \in labels
CommentsUntouched == Len(comments) = had_comments

\* the body is the fenced JSON text of a dict with the entries of d
Encodes(body, d) ==
    \E o \in Orderings(Range(d)) :
        body = << BackTick, BackTick, BackTick, NewLine, Tok("{") >> \o o
                 \o << Tok("}"), NewLine, BackTick, BackTick, BackTick >>

\* the pass computed a report with at least one entry
HasReport == report # None /\ report # << >>

\* some note of the bot, created at or after the top commit, holds the report
ReportAlreadyPosted ==
    /\ HasReport
    /\ \E i \in Prior :
          /\ comments[i].username = BotUser
          /\ comments[i].created_at >= top_commit_created_at
          /\ Encodes(comments[i].body, report)

C2_FailClosed ==
    (Ran /\ Unowned) =>
        /\ ~ approval_status.approved
        /\ "add_label_to_merge_request" \notin Ops
        /\ ~ Logged("approving now")
        /\ (LabelNow => had_label)

\* an unowned path next to paths that are all approved by an owner
C2_Witness ==
    /\ Ran /\ ~ dry_run
    /\ \E path \in paths :
          /\ NoMatch(path)
          /\ paths \ {path} # {}
          /\ \A other \in paths \ {path} : Voted(other)

AllResolve == \A path \in paths : ~ NoMatch(path)

Approvals == { i \in Prior : comments[i].body = LgtmBody }

\* C3 (as claimed): a vote counts iff it is not older than the top commit: a
\* user who owns every changed path and voted at or after the top commit
\* approves the unit, and once every vote is older than the top commit the
\* verdict is not 'approved'.
C3_VoteCutoff ==
    (Ran /\ AllResolve) =>
        /\ (\E u \in Usernames :
               /\ u \in CountedVoters
               /\ \A path \in paths : u \in DeclaredOwners(path))
              => approval_status.approved
        /\ (/\ Approvals # {}
            /\ \A i \in Approvals : comments[i].created_at < top_commit_created_at)
              => ~ approval_status.approved

\* C3 (amended): the same, the second part for a unit that has at least one
\* changed path.
C3_VoteCutoffOfChanges ==
    (Ran /\ AllResolve) =>
        /\ (\E u \in Usernames :
               /\ u \in CountedVoters
               /\ \A path \in paths : u \in DeclaredOwners(path))
              => approval_status.approved
        /\ (/\ paths # {}
            /\ \A i \in Approvals : comments[i].created_at < top_commit_created_at)
              => ~ approval_status.approved

\* the owner of every changed path voted, but before the top commit
C3_Witness ==
    /\ Ran /\ AllResolve /\ paths # {}
    /\ ~ approval_status.approved
    /\ \E i \in Approvals :
          /\ comments[i].created_at < top_commit_created_at
          /\ \A path \in paths : comments[i].username \in DeclaredOwners(path)

\* C4: when every changed path matches an ownership entry, the verdict is
\* 'approved' iff every changed path has an owner among the counted voters,
\* and iff the computed report is empty.
C4_ApprovedIffEveryPathVoted ==
    (Ran /\ AllResolve) =>
        /\ approval_status.approved <=> (\A path \in paths : Voted(path))
        /\ approval_status.approved <=> (report = << >>)

\* approved over two paths although some owner of a path did not vote
C4_Witness ==
    /\ Ran /\ AllResolve /\ approval_status.approved
    /\ Cardinality(paths) >= 2
    /\ \E path \in paths : ~ (DeclaredOwners(path) \subseteq CountedVoters)

\* C5: when the verdict is 'approved', a run adds the label, and does nothing
\* else, if the label is absent, and does nothing at all if it is present;
\* a dry run announces the same and calls nothing.
C5_ApprovedDirectives ==
    (Ran /\ approval_status.approved) =>
        /\ calls = IF had_label \/ dry_run THEN << >> ELSE << AddLabel >>
        /\ log = IF had_label THEN << "already approved" >> ELSE << "approving now" >>
        /\ CommentsUntouched
        /\ LabelNow = (had_label \/ ~ dry_run)

C5_Witness ==
    /\ Ran /\ approval_status.approved /\ ~ had_label /\ ~ dry_run
    /\ paths # {}
    /\ calls = << AddLabel >>
    /\ LabelNow

\* C6: when the verdict is not 'approved' and a note of the bot, created at
\* or after the top commit, already holds the new report, a run posts no
\* comment; it removes the label if the label is present and calls nothing
\* otherwise (a dry run calls nothing).
C6_UnchangedReportDirectives ==
    (Ran /\ ~ approval_status.approved /\ ReportAlreadyPosted) =>
        /\ calls = IF had_label /\ ~ dry_run THEN << RemoveLabel >> ELSE << >>
        /\ ~ Logged("publishing approval report")
        /\ CommentsUntouched

C6_Witness ==
    /\ Ran /\ ~ approval_status.approved /\ ReportAlreadyPosted
    /\ ~ dry_run /\ had_label
    /\ calls = << RemoveLabel >>

\* C7 (as claimed): when the verdict is not 'approved' and no qualifying note
\* of the bot holds the new report, a non-dry run posts one comment with the
\* report, removes the label iff the label was present, and removes it
\* before it posts.
C7_ChangedReportDirectives ==
    (Ran /\ ~ dry_run /\ HasReport /\ ~ ReportAlreadyPosted) =>
        /\ Times("notes.create") = 1
        /\ \A i \in 1..Len(calls) :
              calls[i].op = "notes.create" => Encodes(calls[i].body, report)
        /\ ("remove_label_from_merge_request" \in Ops) <=> had_label
        /\ \A i, j \in 1..Len(calls) :
              (/\ calls[i].op = "remove_label_from_merge_request"
               /\ calls[j].op = "notes.create") => i < j

\* C8 (as claimed): within one run each kind of call is made at most once.
C8_AtMostOncePerRun ==
    Ran => \A op \in { "add_label_to_merge_request",
                       "remove_label_from_merge_request",
                       "notes.create" } : Times(op) <= 1

\* C9: once a non-dry run has completed, every later run over the same
\* index, changes, votes, top commit and labels makes no call and announces
\* none, so the label and the comments stay as that run left them.
C9_RepeatedRunsAreQuiet ==
    (Ran /\ was_settled) =>
        /\ calls = << >>
        /\ log \in { << "already approved" >>, << "not fully approved" >> }
        /\ CommentsUntouched
        /\ LabelNow = had_label

\* a later run finds the report that the first run posted
C9_Witness ==
    /\ Ran /\ was_settled /\ ~ dry_run
    /\ ReportAlreadyPosted
    /\ Cardinality(paths) >= 2
    /\ now > top_commit_created_at

\* the calls that the log lines of a pass announce
Announced ==
    { op \in { "add_label_to_merge_request",
               "remove_label_from_merge_request",
               "notes.create" } :
        \/ op = "add_label_to_merge_request" /\ Logged("approving now")
        \/ op = "remove_label_from_merge_request" /\ Logged("removing approval")
        \/ op = "notes.create" /\ Logged("publishing approval report") }

\* the calls that a non-dry pass over the same inputs makes
WouldCall ==
    LET cs == run_calls(FALSE, approval_status,
                        IF had_label THEN {APPROVAL_LABEL} ELSE {})
    IN  { cs[i].op : i \in 1..Len(cs) }

\* C10 (as claimed): a dry run announces exactly the calls that a non-dry
\* run over the same inputs makes, makes none of them and leaves the label
\* and the comments as they were.
C10_DryRunEquivalence ==
    (Ran /\ dry_run) =>
        /\ Announced = WouldCall
        /\ calls = << >>
        /\ LabelNow = had_label
        /\ CommentsUntouched

\* the keys of the index that are a prefix of the path asked for
Matching == { k \in DOMAIN owners_map : StartsWith(lookup.path, k) }

\* C11 (as claimed): when some key is a prefix of the path, get_all_owners
\* returns the union of the owners of all such keys, also when that union is
\* empty; it fails with the not-found error when no key is a prefix.
C11_AllOwnersIsUnion ==
    lookup.asked =>
        IF Matching # {}
        THEN /\ ~ lookup.owners.raised
             /\ lookup.owners.value = UNION { owners_map[k] : k \in Matching }
        ELSE /\ lookup.owners.raised
             /\ lookup.owners.error = "KeyError"

\* C11 (amended): get_all_owners returns the union of the owners of all keys
\* that are a prefix of the path when that union is not empty; it fails with
\* the not-found error when the union is empty, that is when no key is a
\* prefix or when the matching keys list no approver.
C11_AllOwnersIsNonEmptyUnion ==
    lookup.asked =>
        IF UNION { owners_map[k] : k \in Matching } # {}
        THEN /\ ~ lookup.owners.raised
             /\ lookup.owners.value = UNION { owners_map[k] : k \in Matching }
        ELSE /\ lookup.owners.raised
             /\ lookup.owners.error = "KeyError"

\* two keys match and the union is more than either owner list
C11_Witness ==
    /\ lookup.asked
    /\ Cardinality(Matching) = 2
    /\ ~ lookup.owners.raised
    /\ \A k \in Matching : owners_map[k] # lookup.owners.value

\* C12: when some key is a prefix of the path, get_closest_owners returns
\* the owners of a matching key of maximal length, not those of a shorter
\* key and not a union.
C12_ClosestIsLongestMatch ==
    (lookup.asked /\ Matching # {}) =>
        /\ ~ lookup.closest_owners.raised
        /\ \E k \in Matching :
              /\ \A other \in Matching : Len(other) <= Len(k)
              /\ lookup.closest_owners.value = owners_map[k]

\* the longest of two matching keys wins, with owners unlike the shorter's
C12_Witness ==
    /\ lookup.asked
    /\ \E short, long \in Matching :
          /\ Len(short) < Len(long)
          /\ owners_map[short] # owners_map[long]
          /\ owners_map[short] # {}
          /\ lookup.closest_owners.value = owners_map[long]
          /\ lookup.closest_owners.value # owners_map[short] \cup owners_map[long]

\* C13: when no key is a prefix of the path, get_all_owners and
\* get_closest_owners both fail, with the same kind of error.
C13_NotFoundAgreement ==
    (lookup.asked /\ Matching = {}) =>
        /\ lookup.owners.raised
        /\ lookup.closest_owners.raised
        /\ lookup.owners.error = lookup.closest_owners.error

\* the index has keys, none of them a prefix of the path
C13_Witness ==
    /\ lookup.asked
    /\ Matching = {}
    /\ Cardinality(DOMAIN owners_map) >= 2
    /\ lookup.owners.raised /\ lookup.closest_owners.raised

\* C14 (as claimed): two reports with the same entries give the same comment
\* body, whatever the order in which the changed paths were listed.
C14_DeterministicSerialization ==
    \A first, second \in Orderings(paths) :
        LET one == get_approval_status(first).local
            other == get_approval_status(second).local
        IN  (one # None /\ other # None /\ Range(one) = Range(other)) =>
                markdown_json_report(one) = markdown_json_report(other)

\* the report was published: returned, announced and, unless dry, posted
Published ==
    /\ approval_status.report # None
    /\ Encodes(approval_status.report, report)
    /\ Logged("publishing approval report")
    /\ ~ dry_run =>
          /\ Times("notes.create") = 1
          /\ Len(comments) = had_comments + 1
          /\ comments[Len(comments)].body = approval_status.report

\* C15: only a note of the bot created at or after the top commit keeps the
\* report from being posted: with no such note holding the report, the
\* report is published, whatever other users wrote and whatever the bot
\* wrote before the top commit.
C15_OnlyOwnRecentNotesSuppress ==
    (Ran /\ HasReport /\ ~ ReportAlreadyPosted) => Published

\* the bot posted the same report before the top commit, and posts again
C15_Witness ==
    /\ Ran /\ ~ dry_run /\ HasReport /\ Published
    /\ \E i \in Prior :
          /\ comments[i].username = BotUser
          /\ comments[i].created_at < top_commit_created_at
          /\ Encodes(comments[i].body, report)

\* a note of the bot, created at or after the top commit, that is no JSON
Malformed(i) ==
    /\ i \in Prior
    /\ comments[i].username = BotUser
    /\ comments[i].created_at >= top_commit_created_at
    /\ comments[i].body = JunkBody

\* C16: a qualifying note of the bot that does not parse does not match and
\* does not end the scan: the report is left unposted exactly when some
\* qualifying note holds it, also one that comes after the malformed note,
\* and is published otherwise.
C16_MalformedNoteIsSkipped ==
    (Ran /\ HasReport /\ \E i \in Prior : Malformed(i)) =>
        /\ ReportAlreadyPosted =>
              /\ approval_status.report = None
              /\ ~ Logged("publishing approval report")
              /\ CommentsUntouched
        /\ ~ ReportAlreadyPosted => Published

\* the note that holds the report comes after the malformed one
C16_Witness ==
    /\ Ran /\ ~ dry_run /\ HasReport
    /\ approval_status.report = None
    /\ CommentsUntouched
    /\ \E i, j \in Prior :
          /\ i < j
          /\ Malformed(i)
          /\ comments[j].username = BotUser
          /\ comments[j].created_at >= top_commit_created_at
          /\ Encodes(comments[j].body, report)

\* get_all_owners finds owners for every changed path
OwnersResolve == \A path \in paths : DeclaredOwners(path) # {}

\* the owners declared in the longest key that is a prefix of the path
ClosestDeclared(path) ==
    LET keys == { k \in DOMAIN owners_map : StartsWith(path, k) }
        longest == CHOOSE k \in keys : \A other \in keys : Len(other) <= Len(k)
    IN  owners_map[longest]

\* C17: when owners are found for every changed path, the report has one
\* entry for each changed path that no owner approved and no other entry,
\* and the message of an entry names the closest owners of its path.
C17_ReportContent ==
    (Ran /\ OwnersResolve) =>
        /\ report # None
        /\ { report[i].key : i \in 1..Len(report) }
              = { path \in paths : ~ Voted(path) }
        /\ \A i, j \in 1..Len(report) : report[i].key = report[j].key => i = j
        /\ \A i \in 1..Len(report) :
              report[i].value = ClosestDeclared(report[i].key)

\* two entries, one of them naming fewer users than own its path
C17_Witness ==
    /\ Ran /\ OwnersResolve
    /\ Len(report) = 2
    /\ \E i \in 1..Len(report) :
          /\ report[i].value # DeclaredOwners(report[i].key)
          /\ report[i].value # {}

\* C18: right after a non-dry run the approval label is on the merge request
\* iff the verdict of that run was 'approved'; it is never left on a merge
\* request with a changed path that no counted vote of an owner covers.
C18_LabelTracksVerdict ==
    (Ran /\ ~ dry_run) =>
        /\ LabelNow <=> approval_status.approved
        /\ LabelNow => \A path \in paths : Voted(path)

\* the label was on, the report had been posted already, the label goes
C18_Witness ==
    /\ Ran /\ ~ dry_run /\ had_label
    /\ ReportAlreadyPosted
    /\ ~ approval_status.approved
    /\ ~ LabelNow

\* ------------------------------------------------------ cluster reconciler
OcmRan == ocm_pc = "ran"

Requested == Range(create_calls)

\* the desired clusters that OCM reports as ready
Present == { n \in DOMAIN desired_state : n \in DOMAIN current_state }

\* C19: during one run create_cluster is requested for a desired cluster if
\* and only if the cluster is neither in the current state nor in the pending
\* state, each such cluster once; a run that follows a run which requested
\* clusters for real, with the creations still pending, requests none of them
\* again.
C19_CreateOnlyMissing ==
    [][ /\ OcmRan' =>
            /\ \A n \in DOMAIN desired_state' :
                  (n \in Requested') <=>
                      (n \notin DOMAIN current_state' /\ n \notin was_pending')
            /\ Cardinality(Requested') = Len(create_calls')
        /\ (OcmRan /\ OcmRan' /\ ~ ocm_dry_run) => Requested \cap Requested' = {}
      ]_vars

\* a run that skipped a pending cluster and requested another one
C19_Witness ==
    /\ OcmRan
    /\ \E n \in DOMAIN desired_state : n \in was_pending /\ n \notin Requested
    /\ Requested # {}

\* the version of this ready cluster is behind a non-empty desired version
VersionBehind(n) ==
    /\ desired_state[n].spec.version # EmptyVersion
    /\ current_state[n].spec.version < desired_state[n].spec.version

\* the specs differ outside version, initial_version, id, external_id and
\* provision_shard_id
RestDiffers(n) ==
    \/ desired_state[n].network # current_state[n].network
    \/ \E k \in (DOMAIN desired_state[n].spec \cup DOMAIN current_state[n].spec)
                 \ {"version", "initial_version", "id", "external_id",
                    "provision_shard_id"} :
          \/ k \notin DOMAIN desired_state[n].spec
          \/ k \notin DOMAIN current_state[n].spec
          \/ desired_state[n].spec[k] # current_state[n].spec[k]

\* the version of this ready cluster is ahead of the desired one, or no
\* version is desired
VersionAhead(n) ==
    \/ desired_state[n].spec.version = EmptyVersion
    \/ current_state[n].spec.version > desired_state[n].spec.version

\* C20: a run exits with a non-zero status if and only if some desired
\* cluster that is ready has a version behind the non-empty desired version
\* or differs in the remaining spec; a version ahead of the desired one, or
\* an empty desired version, is no error of its own and is recorded as a
\* version update carrying the current version.
C20_ExitStatus ==
    OcmRan =>
        /\ (exit_status # 0) <=> \E n \in Present : VersionBehind(n) \/ RestDiffers(n)
        /\ \A n \in Present :
              VersionAhead(n) =>
                  /\ "version" \in DOMAIN clusters_updates[n]
                  /\ clusters_updates[n]["version"] = current_state[n].spec.version
                  /\ (~ RestDiffers(n) /\ Present = {n}) => exit_status = 0

\* a run that failed only because one cluster is behind its desired version,
\* while another cluster is ahead of its own and had that recorded
C20_Witness ==
    /\ OcmRan
    /\ exit_status # 0
    /\ \A n \in Present : ~ RestDiffers(n)
    /\ \E n \in Present : VersionBehind(n)
    /\ \E n \in Present : VersionAhead(n) /\ "version" \in DOMAIN clusters_updates[n]
====
